---- MODULE Spec2Model ----
(***************************************************************************)
(* Model of the StACSOS buddy page allocator                               *)
(* (kernel/src/mem/page-allocator-buddy.cpp, the variant with the          *)
(* deferred-merge bitmap, and its header page-allocator-buddy.h).          *)
(*                                                                         *)
(* The allocator object is modelled as a record                            *)
(*   [free_list, total_free, pending, stray, aborted]                      *)
(* and every C++ member function as an operator from records to records.   *)
(* A failed assert() halts the kernel: it sets `aborted' and every later   *)
(* statement of the running call chain is skipped, so the record keeps     *)
(* the fields exactly as the code left them when the assert fired.         *)
(* The intrusive linked list free_list_[k] (next_free stored in the first  *)
(* word of each free block) is modelled as the sequence of PFNs met when   *)
(* following the links from the head.                                      *)
(***************************************************************************)
EXTENDS Integers, Sequences, FiniteSets, TLC

\* ---------------------------------------------------------------- constants
LastOrder == 16
MAX_PENDING_MERGES == 64
\* ls_cache::max_size_
max_size_ == 8

\* nullptr, as returned by allocate_pages on out-of-memory
NULL == -1

\* ------------------------------------------------------------------- bounds
\* the ls cache is asked for at most this many different paths
MaxPaths == 10
\* the key queue of the ls cache is let grow to this length
MaxKeys == 10
\* the scheduler is given at most this many tasks
MaxTasks == 3
\* the largest block index m of the PFNs m * 2^k whose buddy is computed
MaxBlockIndex == 7
\* the host keeps at most this many allocated blocks at a time
MaxAllocated == 3
\* the host makes at most this many calls to the allocator
MaxOps == 7
\* total_free_ is not initialised by the constructor: it starts with any
\* value in 0..MaxGarbage
MaxGarbage == 1

\* ranges (first PFN, page count) the host may donate with insert_free_pages
DonateRanges == { <<0, 16>>, <<3, 5>>, <<0, 1>>, <<1, 1>> }

\* single pages of two buddy pairs of order 0 whose lower PFNs, 0 and 64,
\* have the same pending_merge_index
CollideRanges == { <<0, 1>>, <<1, 1>>, <<64, 1>>, <<65, 1>> }
CollideOrders == {0, 1}

\* orders the host asks for: 0..MaxAllocOrder, and LastOrder itself
MaxAllocOrder == 4
AllocOrders == (0..MaxAllocOrder) \cup {LastOrder}

Orders == 0..LastOrder

VARIABLES free_list_, total_free_, pending_merges_, stray, aborted,
          allocated, managed, ops, last, touched, nonzero

\* the round-robin scheduler's run queue (rr.cpp)
VARIABLES runtime_queue

\* the state of the allocator and of its host
allocator_vars == <<free_list_, total_free_, pending_merges_, stray, aborted,
                    allocated, managed, ops, touched, nonzero>>

\* the ls cache (ls-cache.h): the map from paths to cached listings and the
\* queue of keys in eviction order; `recent' lists the cached paths from
\* the least recently used to the most recently used
VARIABLES map_, keys_, recent

\* the state of the scheduler
sched_vars == <<runtime_queue>>

\* the state of the ls cache
cache_vars == <<map_, keys_, recent>>

\* the ls device: the stored result, the path of the last listing, and what
\* it reads from the file system (each directory's children and its
\* dirty_cache_bit); buffer is the buffer of the latest pread call
VARIABLES prod, last_lookup_path, dirty_cache_bit, children, buffer

ls_vars == <<prod, last_lookup_path, dirty_cache_bit, children, buffer>>

vars == <<free_list_, total_free_, pending_merges_, stray, aborted,
          allocated, managed, ops, last, touched, nonzero, runtime_queue,
          map_, keys_, recent, prod, last_lookup_path, dirty_cache_bit,
          children, buffer>>

\* ------------------------------------------------------------ pure helpers
RECURSIVE Pow2Rec(_)
Pow2Rec(n) == IF n = 0 THEN 1 ELSE 2 * Pow2Rec(n - 1)

\* 1 << n, tabulated for the shifts the code performs
Pow2Tab == [n \in 0..(LastOrder + 1) |-> Pow2Rec(n)]

Pow2(n) == Pow2Tab[n]

Min(S) == CHOOSE x \in S : \A y \in S : x <= y
Max(S) == CHOOSE x \in S : \A y \in S : x >= y

pages_per_block(order) == Pow2(order)

\* block_aligned with the mask pages_per_block(order) in place of
\* pages_per_block(order) - 1: only bit `order' of the PFN is tested
block_aligned_one_bit(order, pfn) == (pfn \div Pow2Rec(order)) % 2 = 0

block_aligned(order, pfn) == pfn % pages_per_block(order) = 0

\* the buddy computed by adding 2^order, whichever half the block is
calculate_other_buddy_pfn_adds(order, buddy_pfn) == buddy_pfn + Pow2(order)

\* buddy_pfn ^ (1 << order): flips bit `order' of the PFN
calculate_other_buddy_pfn(order, buddy_pfn) ==
    IF (buddy_pfn \div Pow2(order)) % 2 = 0
    THEN buddy_pfn + Pow2(order)
    ELSE buddy_pfn - Pow2(order)

pending_merge_index(lower_pfn, order) == (lower_pfn + order) % MAX_PENDING_MERGES

\* the pages of the block of the given order that starts at pfn
BlockPages(pfn, order) == pfn .. (pfn + pages_per_block(order) - 1)

\* ------------------------------------------------------- allocator object
Abort(a) == [a EXCEPT !.aborted = TRUE]

\* metadata(p)->next_free is read or written for the pages p in pfns: the
\* link word lies at the base of the page itself, so the page is touched
metadata(a, pfns) == [a EXCEPT !.touched = @ \cup pfns]

\* a link word is stored in the pages in pfns; the pages in `set' receive a
\* pointer to a page, the others nullptr, which leaves whatever else the
\* page holds
store_next_free(a, pfns, set) ==
    [metadata(a, pfns) EXCEPT !.nonzero = @ \cup set]

\* memops::pzero(base, nr_pages): nr_pages pages from the base are zeroed
pzero(a, pfn, nr_pages) ==
    [a EXCEPT !.nonzero = @ \ (pfn .. (pfn + nr_pages - 1))]

\* if ((flags & zero) == zero) pzero(base, nr_pages)
zero_if_asked(a, flags, pfn, nr_pages) ==
    IF ~a.aborted /\ flags = "zero" THEN pzero(a, pfn, nr_pages) ELSE a

\* the list nodes up to position k
Nodes(s, k) == { s[i] : i \in 1..k }

\* insert_free_block without the walk: the block is linked in at the head
insert_free_block_at_head(a, order, pfn) ==
    IF a.aborted THEN a
    ELSE IF ~(order >= 0 /\ order <= LastOrder) THEN Abort(a)
    ELSE IF ~(pfn % Pow2Rec(order) = 0) THEN Abort(a)
    ELSE LET s == a.free_list[order]
         IN IF s # <<>> /\ s[1] = pfn
            THEN Abort(a)
            ELSE [a EXCEPT !.free_list[order] = <<pfn>> \o s]

\* assert(*slot != target); metadata(target)->next_free = *slot;
\* *slot = target, for the slot in front of position k of the list s
splice_in(a, order, pfn, s, k) ==
    IF k <= Len(s) /\ s[k] = pfn
    THEN Abort(a)
    ELSE [store_next_free(a, {pfn} \cup (Nodes(s, k - 1) \ Nodes(s, k - 2)),
                          (IF k <= Len(s) THEN {pfn} ELSE {})
                          \cup (Nodes(s, k - 1) \ Nodes(s, k - 2)))
            EXCEPT !.free_list[order] =
                SubSeq(s, 1, k - 1) \o <<pfn>> \o SubSeq(s, k, Len(s))]

\* walks the list while *slot < target, asserts *slot != target, splices in
insert_free_block(a, order, pfn) ==
    IF a.aborted THEN a
    ELSE IF ~(order >= 0 /\ order <= LastOrder) THEN Abort(a)
    ELSE IF ~block_aligned(order, pfn) THEN Abort(a)
    ELSE LET s    == a.free_list[order]
             stop == { i \in 1..Len(s) : ~(s[i] < pfn) }
             k    == IF stop = {} THEN Len(s) + 1 ELSE Min(stop)
         IN splice_in(metadata(a, Nodes(s, k - 1)), order, pfn, s, k)

\* *candidate_slot = metadata(target)->next_free;
\* metadata(target)->next_free = nullptr, for the target at position k of s
unlink(a, order, s, k) ==
    [store_next_free(metadata(a, Nodes(s, k)),
                     Nodes(s, k) \ Nodes(s, k - 2),
                     IF k > 1 /\ k < Len(s) THEN {s[k - 1]} ELSE {})
        EXCEPT !.free_list[order] = SubSeq(s, 1, k - 1) \o SubSeq(s, k + 1, Len(s))]

\* walks the list until the target, asserts it was found, unlinks it
remove_free_block(a, order, pfn) ==
    IF a.aborted THEN a
    ELSE IF ~(order >= 0 /\ order <= LastOrder) THEN Abort(a)
    ELSE IF ~block_aligned(order, pfn) THEN Abort(a)
    ELSE LET s   == a.free_list[order]
             hit == { i \in 1..Len(s) : s[i] = pfn }
         IN IF hit = {}
            THEN Abort(metadata(a, Nodes(s, Len(s))))
            ELSE unlink(a, order, s, Min(hit))

is_buddy_free(a, order, buddy_pfn) ==
    \E i \in 1..Len(a.free_list[order]) : a.free_list[order][i] = buddy_pfn

\* is_buddy_free that looks at the link word of the buddy page itself before
\* it walks the list
is_buddy_free_walk_peeks(a, order, buddy_pfn) ==
    LET s   == a.free_list[order]
        hit == { i \in 1..Len(s) : s[i] = buddy_pfn }
    IN metadata(a, {buddy_pfn} \cup Nodes(s, IF hit = {} THEN Len(s) ELSE Min(hit) - 1))

\* the walk of is_buddy_free: the link of every node in front of the buddy
\* is followed, of every node if the buddy is not in the list
is_buddy_free_walk(a, order, buddy_pfn) ==
    LET s   == a.free_list[order]
        hit == { i \in 1..Len(s) : s[i] = buddy_pfn }
    IN metadata(a, Nodes(s, IF hit = {} THEN Len(s) ELSE Min(hit) - 1))

\* split_block that leaves the block being split in its free list
split_block_keep_parent(a, order, pfn) ==
    IF a.aborted THEN a
    ELSE IF ~(0 < order /\ order <= LastOrder) THEN Abort(a)
    ELSE IF ~block_aligned(order, pfn) THEN Abort(a)
    ELSE LET a2 == insert_free_block(a, order - 1, pfn)
         IN insert_free_block(a2, order - 1, pfn + Pow2(order - 1))

split_block(a, order, pfn) ==
    IF a.aborted THEN a
    ELSE IF ~(0 < order /\ order <= LastOrder) THEN Abort(a)
    ELSE IF ~block_aligned(order, pfn) THEN Abort(a)
    ELSE LET first_buddy_pfn  == pfn
             second_buddy_pfn == pfn + Pow2(order - 1)
             a1 == remove_free_block(a, order, pfn)
             a2 == insert_free_block(a1, order - 1, first_buddy_pfn)
         IN insert_free_block(a2, order - 1, second_buddy_pfn)

\* merge_buddies that puts the merged block one order too high
merge_buddies_too_high(a, order, pfn) ==
    IF a.aborted THEN a
    ELSE IF ~(0 <= order /\ order <= LastOrder) THEN Abort(a)
    ELSE LET other == calculate_other_buddy_pfn(order, pfn)
         IN IF ~(block_aligned(order, pfn) /\ block_aligned(order, other))
            THEN Abort(a)
            ELSE IF ~is_buddy_free(a, order, other)
            THEN Abort(is_buddy_free_walk(a, order, other))
            ELSE LET a0 == is_buddy_free_walk(a, order, other)
                     a1 == remove_free_block(a0, order, pfn)
                     a2 == remove_free_block(a1, order, other)
                     merged_pfn == IF pfn < other THEN pfn ELSE other
                 IN insert_free_block(a2, order + 2, merged_pfn)

merge_buddies(a, order, pfn) ==
    IF a.aborted THEN a
    ELSE IF ~(0 <= order /\ order <= LastOrder) THEN Abort(a)
    ELSE LET other == calculate_other_buddy_pfn(order, pfn)
         IN IF ~(block_aligned(order, pfn) /\ block_aligned(order, other))
            THEN Abort(a)
            ELSE IF ~is_buddy_free(a, order, other)
            THEN Abort(is_buddy_free_walk(a, order, other))
            ELSE LET a0 == is_buddy_free_walk(a, order, other)
                     a1 == remove_free_block(a0, order, pfn)
                     a2 == remove_free_block(a1, order, other)
                     merged_pfn == IF pfn < other THEN pfn ELSE other
                 IN insert_free_block(a2, order + 1, merged_pfn)

get_bit(a, order, idx) == IF <<order, idx>> \in a.pending THEN 1 ELSE 0

is_pending_merge(a, pfn, order) ==
    get_bit(a, order, pending_merge_index(pfn, order)) = 1

\* set_pending_merge that takes the PFN itself for the bit index
set_pending_merge_unhashed(a, pfn, order) ==
    IF order \in Orders
    THEN [a EXCEPT !.pending = @ \cup {<<order, pfn % MAX_PENDING_MERGES>>}]
    ELSE [a EXCEPT !.stray = @ \cup {<<order, pfn % MAX_PENDING_MERGES>>}]

\* pending_merges_[order][index / 64] |= 1 << (index % 64).  The row
\* `order' lies inside the array only for order <= LastOrder; a store to a
\* row past the array touches memory behind the allocator object and is
\* recorded in `stray'.
set_pending_merge(a, pfn, order) ==
    LET index == pending_merge_index(pfn, order)
    IN IF order \in Orders
       THEN [a EXCEPT !.pending = @ \cup {<<order, index>>}]
       ELSE [a EXCEPT !.stray = @ \cup {<<order, index>>}]

clear_pending_merge(a, pfn, order) ==
    LET index == pending_merge_index(pfn, order)
    IN IF order \in Orders
       THEN [a EXCEPT !.pending = @ \ {<<order, index>>}]
       ELSE [a EXCEPT !.stray = @ \cup {<<order, index>>}]

\* the test `block_aligned(order, buddy_pfn) && is_buddy_free(order,
\* buddy_pfn)' of free_pages, made when order < LastOrder: the list is walked
\* only for an aligned buddy
probe_buddy(a, order, pfn) ==
    LET buddy_pfn == calculate_other_buddy_pfn(order, pfn)
    IN IF a.aborted \/ ~(order < LastOrder) \/ ~block_aligned(order, buddy_pfn)
       THEN a
       ELSE is_buddy_free_walk(a, order, buddy_pfn)

\* free_pages without the deferral: the buddies are merged as soon as the
\* buddy is found free
free_pages_eager(a, pfn, order) ==
    IF a.aborted THEN a
    ELSE IF ~(order >= 0 /\ order <= LastOrder) THEN Abort(a)
    ELSE IF ~block_aligned(order, pfn) THEN Abort(a)
    ELSE
    LET a1 == probe_buddy(insert_free_block(a, order, pfn), order, pfn)
        buddy_pfn == calculate_other_buddy_pfn(order, pfn)
        a2 == IF a1.aborted \/ ~(order < LastOrder) THEN a1
              ELSE IF block_aligned(order, buddy_pfn) /\ is_buddy_free(a1, order, buddy_pfn)
              THEN merge_buddies(a1, order, pfn)
              ELSE a1
    IN IF a2.aborted THEN a2
       ELSE [a2 EXCEPT !.total_free = @ + pages_per_block(order)]

\* free_pages that does the accounting before it checks its arguments
free_pages_counts_first(a, pfn, order) ==
    IF a.aborted THEN a
    ELSE
    LET a0 == [a EXCEPT !.total_free =
                  @ + (IF order \in Orders THEN pages_per_block(order) ELSE 1)]
    IN IF ~(order >= 0 /\ order <= LastOrder) THEN Abort(a0)
       ELSE IF ~block_aligned(order, pfn) THEN Abort(a0)
       ELSE
       LET a1 == probe_buddy(insert_free_block(a0, order, pfn), order, pfn)
           buddy_pfn == calculate_other_buddy_pfn(order, pfn)
           lower_pfn == IF pfn < buddy_pfn THEN pfn ELSE buddy_pfn
       IN IF a1.aborted \/ ~(order < LastOrder) THEN a1
          ELSE IF block_aligned(order, buddy_pfn) /\ is_buddy_free(a1, order, buddy_pfn)
          THEN IF is_pending_merge(a1, lower_pfn, order)
               THEN LET b1 == clear_pending_merge(a1, lower_pfn, order)
                        b2 == merge_buddies(b1, order, pfn)
                    IN insert_free_block(b2, order + 1, lower_pfn)
               ELSE set_pending_merge(a1, lower_pfn, order)
          ELSE a1

RECURSIVE free_pages(_, _, _)
free_pages(a, pfn, order) ==
    IF a.aborted THEN a
    ELSE IF ~(order >= 0 /\ order <= LastOrder) THEN Abort(a)
    ELSE IF ~block_aligned(order, pfn) THEN Abort(a)
    ELSE
    LET a1 == probe_buddy(insert_free_block(a, order, pfn), order, pfn)
        buddy_pfn == calculate_other_buddy_pfn(order, pfn)
        lower_pfn == IF pfn < buddy_pfn THEN pfn ELSE buddy_pfn
        a2 == IF a1.aborted \/ ~(order < LastOrder) THEN a1
              ELSE IF block_aligned(order, buddy_pfn) /\ is_buddy_free(a1, order, buddy_pfn)
              THEN IF is_pending_merge(a1, lower_pfn, order)
                   THEN LET b1 == clear_pending_merge(a1, lower_pfn, order)
                            b2 == merge_buddies(b1, order, pfn)
                        IN free_pages(b2, lower_pfn, order + 1)
                   ELSE set_pending_merge(a1, lower_pfn, order)
              ELSE a1
    IN IF a2.aborted THEN a2
       ELSE [a2 EXCEPT !.total_free = @ + pages_per_block(order)]

\* the order search with >= in place of >: a block must be smaller than
\* the pages that remain
DonateOrder_strict(pfn, remaining) ==
    Max({ k \in Orders :
            k = 0 \/ (block_aligned(k, pfn) /\ pages_per_block(k) < remaining) })

\* the order search without the alignment test
DonateOrder_ignores_alignment(pfn, remaining) ==
    Max({ k \in Orders : k = 0 \/ pages_per_block(k) <= remaining })

\* the order insert_free_pages picks for the block starting at pfn
DonateOrder(pfn, remaining) ==
    Max({ k \in Orders :
            k = 0 \/ (block_aligned(k, pfn) /\ pages_per_block(k) <= remaining) })

RECURSIVE DonateLoop(_, _, _)
DonateLoop(a, pfn, remaining) ==
    IF a.aborted \/ remaining = 0 THEN a
    ELSE LET order == DonateOrder(pfn, remaining)
             size_of_the_block == pages_per_block(order)
         IN DonateLoop(free_pages(a, pfn, order),
                       pfn + size_of_the_block, remaining - size_of_the_block)

insert_free_pages(a, start, page_count) ==
    IF a.aborted THEN a
    ELSE IF ~(page_count > 0) THEN Abort(a)
    ELSE LET a1 == DonateLoop(a, start, page_count)
         IN IF a1.aborted THEN a1
            ELSE [a1 EXCEPT !.total_free = @ + page_count]

\* one iteration of the body of the two loops of cleanup_pending_merges, for a
\* bit (order, idx) that get_bit reports set.  The three calls
\* clear_pending_merge(order, possible_lower_pfn) pass the loop's order as the
\* pfn parameter and the candidate PFN as the order parameter.
CleanupBit(a, order, idx) ==
    IF a.aborted THEN a
    ELSE
    LET possible_lower_pfn == idx
        expected_idx == pending_merge_index(possible_lower_pfn, order)
        buddy_pfn == calculate_other_buddy_pfn(order, possible_lower_pfn)
    IN IF expected_idx = idx
       THEN LET aligned == /\ block_aligned(order, possible_lower_pfn)
                           /\ block_aligned(order, buddy_pfn)
                w1 == IF aligned THEN is_buddy_free_walk(a, order, possible_lower_pfn)
                      ELSE a
                w2 == IF aligned /\ is_buddy_free(a, order, possible_lower_pfn)
                      THEN is_buddy_free_walk(w1, order, buddy_pfn)
                      ELSE w1
            IN IF /\ aligned
                  /\ is_buddy_free(a, order, possible_lower_pfn)
                  /\ is_buddy_free(a, order, buddy_pfn)
               THEN LET a1 == merge_buddies(w2, order, possible_lower_pfn)
                    IN IF a1.aborted THEN a1
                       ELSE clear_pending_merge(a1, order, possible_lower_pfn)
               ELSE clear_pending_merge(w2, order, possible_lower_pfn)
       ELSE clear_pending_merge(a, order, possible_lower_pfn)

\* position of bit (order, idx) in the iteration order of the two loops
BitPos(order, idx) == order * MAX_PENDING_MERGES + idx

\* the loops from position pos on: bits that are clear are skipped, the next
\* set bit is processed, and the loops go on behind it
RECURSIVE CleanupFrom(_, _)
CleanupFrom(a, pos) ==
    LET todo == { b \in a.pending : BitPos(b[1], b[2]) >= pos }
    IN IF a.aborted \/ todo = {} THEN a
       ELSE LET p == Min({ BitPos(b[1], b[2]) : b \in todo })
                order == p \div MAX_PENDING_MERGES
                idx == p % MAX_PENDING_MERGES
            IN CleanupFrom(CleanupBit(a, order, idx), p + 1)

cleanup_pending_merges(a) == CleanupFrom(a, 0)

\* orders current_order >= order whose free list is not empty
Candidates(a, order) == { k \in order..LastOrder : a.free_list[k] # <<>> }

\* first scan: while (current_order > order) { split_block; --current_order; }
RECURSIVE SplitDown(_, _, _, _)
SplitDown(a, current_order, order, pfn) ==
    IF a.aborted \/ ~(current_order > order) THEN a
    ELSE SplitDown(split_block(a, current_order, pfn), current_order - 1, order, pfn)

\* the result of allocate_pages: the allocator afterwards, the returned page
\* (NULL for nullptr) and the path taken
AllocResult(a, ret, path) ==
    [a |-> a, ret |-> IF a.aborted THEN NULL ELSE ret, path |-> path]

\* the first scan taking the last block of the list instead of its head
FirstScan_takes_last(a, order, flags) ==
    LET current_order == Min(Candidates(a, order))
        s == a.free_list[current_order]
        block_of_pages == s[Len(s)]
        a1 == SplitDown(a, current_order, order, block_of_pages)
        a2 == remove_free_block(a1, order, block_of_pages)
        a3 == IF a2.aborted THEN a2
              ELSE [a2 EXCEPT !.total_free = @ - pages_per_block(order)]
        a4 == zero_if_asked(a3, flags, block_of_pages, pages_per_block(order))
    IN AllocResult(a4, block_of_pages, "first")

FirstScan(a, order, flags) ==
    LET current_order == Min(Candidates(a, order))
        block_of_pages == Head(a.free_list[current_order])
        a1 == SplitDown(a, current_order, order, block_of_pages)
        a2 == remove_free_block(a1, order, block_of_pages)
        a3 == IF a2.aborted THEN a2
              ELSE [a2 EXCEPT !.total_free = @ - pages_per_block(order)]
        a4 == zero_if_asked(a3, flags, block_of_pages, pages_per_block(order))
    IN AllocResult(a4, block_of_pages, "first")

\* the retry scan passing the order to pzero in place of the page count
RetryScan_zeroes_order_pages(a, order, flags) ==
    LET current_order == Min(Candidates(a, order))
        allocated_page == Head(a.free_list[current_order])
        a1 == remove_free_block(a, current_order, allocated_page)
        a2 == SplitDown(a1, current_order, order, allocated_page)
        a3 == IF a2.aborted THEN a2
              ELSE [a2 EXCEPT !.total_free = @ - pages_per_block(order)]
        a4 == zero_if_asked(a3, flags, allocated_page, order)
    IN AllocResult(a4, allocated_page, "retry")

\* retry scan: the block is removed first and split_block is then called
\* on it for every order down to the requested one
RetryScan(a, order, flags) ==
    LET current_order == Min(Candidates(a, order))
        allocated_page == Head(a.free_list[current_order])
        a1 == remove_free_block(a, current_order, allocated_page)
        a2 == SplitDown(a1, current_order, order, allocated_page)
        a3 == IF a2.aborted THEN a2
              ELSE [a2 EXCEPT !.total_free = @ - pages_per_block(order)]
        a4 == zero_if_asked(a3, flags, allocated_page, pages_per_block(order))
    IN AllocResult(a4, allocated_page, "retry")

allocate_pages(a, order, flags) ==
    IF a.aborted THEN AllocResult(a, NULL, "abort")
    ELSE IF ~(order >= 0 /\ order <= LastOrder) THEN AllocResult(Abort(a), NULL, "abort")
    ELSE IF Candidates(a, order) # {} THEN FirstScan(a, order, flags)
    ELSE LET c == cleanup_pending_merges(a)
         IN IF c.aborted THEN AllocResult(c, NULL, "retry")
            ELSE IF Candidates(c, order) # {} THEN RetryScan(c, order, flags)
            ELSE AllocResult(c, NULL, "oom")

\* ------------------------------------------------------------ state machine
\* the allocator object assembled from the variables
Self == [free_list  |-> free_list_,
         total_free |-> total_free_,
         pending    |-> pending_merges_,
         stray      |-> stray,
         aborted    |-> aborted,
         touched    |-> {},
         nonzero    |-> nonzero]

Store(a) ==
    /\ free_list_' = a.free_list
    /\ total_free_' = a.total_free
    /\ pending_merges_' = a.pending
    /\ stray' = a.stray
    /\ aborted' = a.aborted
    /\ touched' = a.touched
    /\ nonzero' = a.nonzero

\* every call of the host counts against its budget
Call == ops < MaxOps /\ ops' = ops + 1

\* ------------------------------------------------ the ls device's data
\* the size of the entries array of a final_product
MAX_RESULT_ENTRIES == 50

\* sizeof(ls_result): a u64 code, a 4-byte result code padded to 8, a u64 count
sizeof_ls_result == 24

\* sizeof(directory_entry): 128 bytes of name, a 4-byte kind padded to 8, a u64
sizeof_directory_entry == 144

sizeof_final_product == sizeof_ls_result + MAX_RESULT_ENTRIES * sizeof_directory_entry

\* the largest number of children the host gives the directory it writes to
MaxChildren == 3

\* the paths user programs ask for
DirA == 1
DirBig == 2
FilePath == 3
MissingPath == 4
EmptyDir == 5
ForeignDir == 6
NoPath == 0

LsPaths == {DirA, DirBig, FilePath, MissingPath, EmptyDir, ForeignDir}

\* what vfs::lookup finds at a path: nothing, or a node of a kind in a file
\* system of a type
vfs_lookup(path) ==
    [exists |-> path # MissingPath,
     kind   |-> IF path = FilePath THEN "file" ELSE "directory",
     fs     |-> IF path = ForeignDir THEN "other" ELSE "fat"]

\* the n first children of a directory: files of some size, every third one
\* a directory
ChildrenOf(path, n) ==
    [i \in 1..n |-> [name |-> 100 * path + i,
                     kind |-> IF i % 3 = 0 THEN "directory" ELSE "file",
                     data_size |-> 10 * i]]

\* a directory_entry of zero bytes (fs_node_kind::file is 0)
ZeroEntry == [name |-> 0, type |-> "file", size |-> 0]

\* a directory_entry nobody wrote
GarbageEntry == [name |-> NULL, type |-> "directory", size |-> NULL]

\* a final_product of zero bytes (both ok codes are 0)
ZeroProd ==
    [code |-> "ok", result_code |-> "ok", number_entries |-> 0,
     entries |-> [i \in 1..MAX_RESULT_ENTRIES |-> ZeroEntry]]

\* a final_product nobody wrote, as the constructor leaves prod and as a user
\* program's local buffer is before pread
GarbageProd(g) ==
    [code |-> "not_found", result_code |-> "unknown_error", number_entries |-> g,
     entries |-> [i \in 1..MAX_RESULT_ENTRIES |-> GarbageEntry]]

\* the constructors: empty lists, zeroed bitmap, total_free_ left as found;
\* an empty run queue; an empty cache; a device that listed nothing
Constructed ==
    /\ free_list_ = [k \in Orders |-> <<>>]
    /\ total_free_ \in 0..MaxGarbage
    /\ pending_merges_ = {}
    /\ stray = {}
    /\ aborted = FALSE
    /\ allocated = {}
    /\ managed = {}
    /\ ops = 0
    /\ last = [op |-> "new", order |-> 0, pfn |-> NULL, count |-> 0, path |-> "none",
               flags |-> "none"]
    /\ touched = {}
    /\ nonzero = {}
    /\ runtime_queue = <<>>
    /\ map_ = <<>>
    /\ keys_ = <<>>
    /\ recent = <<>>
    /\ last_lookup_path = NoPath
    /\ dirty_cache_bit = [p \in LsPaths |-> FALSE]
    /\ children = [p \in LsPaths |->
                     IF p = DirA THEN ChildrenOf(p, 1)
                     ELSE IF p = DirBig THEN ChildrenOf(p, MAX_RESULT_ENTRIES + 1)
                     ELSE <<>>]
    /\ buffer = GarbageProd(0)

\* the state after construction; the allocator, the scheduler and the cache
\* never read the device's prod
Init == Constructed /\ prod = GarbageProd(0)

\* the state after construction with prod as found: the constructor of ls
\* does not initialise it
InitLs == Constructed /\ prod \in { GarbageProd(g) : g \in 0..MaxGarbage }

\* the host donates a range of pages the allocator does not manage yet
InsertFreePages(start, count) ==
    /\ ~aborted
    /\ Call
    /\ UNCHANGED <<sched_vars, cache_vars, ls_vars>>
    /\ <<start, count>> \in DonateRanges \cup CollideRanges
    /\ (start .. (start + count - 1)) \cap managed = {}
    /\ Store(insert_free_pages(
                [Self EXCEPT !.nonzero = @ \cup (start .. (start + count - 1))],
                start, count))
    /\ managed' = managed \cup (start .. (start + count - 1))
    /\ allocated' = allocated
    /\ last' = [op |-> "insert", order |-> 0, pfn |-> start, count |-> count,
                path |-> "none", flags |-> "none"]

\* the host asks for a block; it remembers the blocks it was given
AllocatePages(order, flags) ==
    /\ ~aborted
    /\ Call
    /\ UNCHANGED <<sched_vars, cache_vars, ls_vars>>
    /\ Cardinality(allocated) < MaxAllocated
    /\ LET r == allocate_pages(Self, order, flags)
       IN /\ Store(r.a)
          /\ allocated' = IF r.ret = NULL THEN allocated
                          ELSE allocated \cup {<<r.ret, order>>}
          /\ last' = [op |-> "alloc", order |-> order, pfn |-> r.ret, count |-> 0,
                      path |-> r.path, flags |-> flags]
    /\ managed' = managed

\* the host gives back a block it was given, with the order it asked for
FreePages(pfn, order) ==
    /\ ~aborted
    /\ Call
    /\ UNCHANGED <<sched_vars, cache_vars, ls_vars>>
    /\ <<pfn, order>> \in allocated
    /\ Store(free_pages(Self, pfn, order))
    /\ allocated' = allocated \ {<<pfn, order>>}
    /\ managed' = managed
    /\ last' = [op |-> "free", order |-> order, pfn |-> pfn, count |-> 0,
                path |-> "none", flags |-> "none"]

\* ---------------------------------------------------- calls the host must
\* not make
MisuseOps == {"double_free", "bad_free", "bad_alloc"}

\* orders outside 0..LastOrder the host may pass
BadOrders == {-1, LastOrder + 1}

\* the blocks the host may free a second time: first PFN and order
DoubleFreePfns == 0..3
DoubleFreeOrders == 0..2

\* the pages that were donated or freed and not allocated since
HostFreePages == managed \ UNION { BlockPages(b[1], b[2]) : b \in allocated }

\* the host frees, with a valid order and an aligned PFN, a block all of
\* whose pages are free already
DoubleFree(pfn, order) ==
    /\ ~aborted
    /\ last.op \notin MisuseOps
    /\ Call
    /\ UNCHANGED <<sched_vars, cache_vars, ls_vars>>
    /\ pfn \in DoubleFreePfns
    /\ order \in DoubleFreeOrders
    /\ block_aligned(order, pfn)
    /\ BlockPages(pfn, order) \subseteq HostFreePages
    /\ Store(free_pages(Self, pfn, order))
    /\ UNCHANGED <<allocated, managed>>
    /\ last' = [op |-> "double_free", order |-> order, pfn |-> pfn, count |-> 0,
                path |-> "none", flags |-> "none"]

\* the host gives back a block it holds, but with an order out of range or
\* with a PFN that is not aligned to the order it passes
BadFree(pfn, order) ==
    /\ ~aborted
    /\ last.op \notin MisuseOps
    /\ Call
    /\ UNCHANGED <<sched_vars, cache_vars, ls_vars>>
    /\ \E b \in allocated :
          /\ pfn \in {b[1], b[1] + 1}
          /\ order \in BadOrders \cup {b[2], b[2] + 1}
    /\ IF order \in BadOrders THEN TRUE ELSE ~block_aligned(order, pfn)
    /\ Store(free_pages(Self, pfn, order))
    /\ UNCHANGED <<allocated, managed>>
    /\ last' = [op |-> "bad_free", order |-> order, pfn |-> pfn, count |-> 0,
                path |-> "none", flags |-> "none"]

\* the host calls allocate_pages with an order out of range
BadAlloc(order) ==
    /\ ~aborted
    /\ last.op \notin MisuseOps
    /\ Call
    /\ UNCHANGED <<sched_vars, cache_vars, ls_vars>>
    /\ order \in BadOrders
    /\ LET r == allocate_pages(Self, order, "none")
       IN /\ Store(r.a)
          /\ allocated' = IF r.ret = NULL THEN allocated
                          ELSE allocated \cup {<<r.ret, order>>}
          /\ last' = [op |-> "bad_alloc", order |-> order, pfn |-> r.ret, count |-> 0,
                      path |-> r.path, flags |-> "none"]
    /\ managed' = managed

Next ==
    \/ \E r \in DonateRanges : InsertFreePages(r[1], r[2])
    \/ \E order \in AllocOrders : AllocatePages(order, "none")
    \/ \E b \in allocated : FreePages(b[1], b[2])

Spec == Init /\ [][Next]_vars

\* a host that asks for zeroed pages with every allocation
NextZero ==
    \/ \E r \in DonateRanges : InsertFreePages(r[1], r[2])
    \/ \E order \in AllocOrders : AllocatePages(order, "zero")
    \/ \E b \in allocated : FreePages(b[1], b[2])

SpecZero == Init /\ [][NextZero]_vars

\* a host whose pages are two buddy pairs that share a pending-merge bit
NextCollide ==
    \/ \E r \in CollideRanges : InsertFreePages(r[1], r[2])
    \/ \E order \in CollideOrders : AllocatePages(order, "none")
    \/ \E b \in allocated : FreePages(b[1], b[2])

SpecCollide == Init /\ [][NextCollide]_vars

\* the host may also make one call that breaks the interface's preconditions
NextMisuse ==
    \/ (last.op \notin MisuseOps /\ Next)
    \/ \E pfn \in DoubleFreePfns : \E order \in DoubleFreeOrders : DoubleFree(pfn, order)
    \/ \E pfn \in managed : \E order \in BadOrders \cup (0..(MaxAllocOrder + 1)) :
           BadFree(pfn, order)
    \/ \E order \in BadOrders : BadAlloc(order)

SpecMisuse == Init /\ [][NextMisuse]_vars

\* ------------------------------------------------ round-robin scheduler
\* the thread control blocks the scheduler core hands to the algorithm
Tasks == 1..MaxTasks

\* list<T>::enqueue: the element is appended at the tail
enqueue(q, elem) == Append(q, elem)

\* list<T>::remove: the first node holding the element is unlinked; a list
\* without such a node is left as it is
list_remove(q, elem) ==
    LET hit == { i \in 1..Len(q) : q[i] = elem }
    IN IF hit = {} THEN q
       ELSE SubSeq(q, 1, Min(hit) - 1) \o SubSeq(q, Min(hit) + 1, Len(q))

\* list<T>::rotate: the head is moved to the tail and returned
rotate(q) == [q |-> Tail(q) \o <<Head(q)>>, ret |-> Head(q)]

add_to_runqueue(q, tcb) == enqueue(q, tcb)

\* remove_from_runqueue that unlinks the head of the queue, whatever task
\* was passed
remove_from_runqueue_head(q, tcb) ==
    IF q = <<>> THEN q ELSE Tail(q)

remove_from_runqueue(q, tcb) ==
    IF q = <<>> THEN q ELSE list_remove(q, tcb)

\* select_next_task as in the first version of rr.cpp: current is queued
\* again and the head is popped
select_next_task_pops(q, current) ==
    LET q1 == IF current # NULL THEN enqueue(q, current) ELSE q
    IN IF q1 = <<>> THEN [q |-> q1, ret |-> NULL]
       ELSE [q |-> Tail(q1), ret |-> Head(q1)]

select_next_task(q, current) ==
    IF q = <<>> THEN [q |-> q, ret |-> NULL] ELSE rotate(q)

\* the number of picks the scheduler core remembers
PickWindow == 2 * MaxTasks

\* the tasks returned by the latest select_next_task calls, oldest first,
\* since the last add_to_runqueue or remove_from_runqueue, ret being the
\* newest
Picked(ret) ==
    LET before == IF last.op = "select" THEN last.picks ELSE <<>>
    IN IF Len(before) < PickWindow THEN Append(before, ret)
       ELSE Append(Tail(before), ret)

\* the scheduler core makes a task runnable that is not queued
AddToRunqueue(tcb) ==
    /\ tcb \notin { runtime_queue[i] : i \in 1..Len(runtime_queue) }
    /\ runtime_queue' = add_to_runqueue(runtime_queue, tcb)
    /\ last' = [op |-> "add", task |-> tcb, current |-> NULL, ret |-> NULL,
                picks |-> <<>>]
    /\ UNCHANGED <<allocator_vars, cache_vars, ls_vars>>

\* the scheduler core takes a task off the queue, queued or not
RemoveFromRunqueue(tcb) ==
    /\ runtime_queue' = remove_from_runqueue(runtime_queue, tcb)
    /\ last' = [op |-> "remove", task |-> tcb, current |-> NULL, ret |-> NULL,
                picks |-> <<>>]
    /\ UNCHANGED <<allocator_vars, cache_vars, ls_vars>>

\* the scheduler core asks for the next task to run
SelectNextTask(current) ==
    /\ LET r == select_next_task(runtime_queue, current)
       IN /\ runtime_queue' = r.q
          /\ last' = [op |-> "select", task |-> NULL, current |-> current,
                      ret |-> r.ret, picks |-> Picked(r.ret)]
    /\ UNCHANGED <<allocator_vars, cache_vars, ls_vars>>

NextRR ==
    \/ \E tcb \in Tasks : AddToRunqueue(tcb)
    \/ \E tcb \in Tasks : RemoveFromRunqueue(tcb)
    \/ \E current \in Tasks \cup {NULL} : SelectNextTask(current)

SpecRR == Init /\ [][NextRR]_vars

\* ------------------------------------------------------------- ls cache
\* the paths the device is asked for, the path that is cached again while it
\* is cached, and the paths that are looked up
Paths == 1..MaxPaths
RePutPaths == {1}
LookupPaths == {1, 2}

\* list<T>::dequeue: the head is unlinked and returned
dequeue(q) == [q |-> Tail(q), ret |-> Head(q)]

\* map<K, V>::add: the key is bound to the value, replacing its old value
map_add(m, k, v) == [x \in DOMAIN m \cup {k} |-> IF x = k THEN v ELSE m[x]]

\* map<K, V>::erase: the key is unbound; a key that is not bound is ignored
map_erase(m, k) == [x \in DOMAIN m \ {k} |-> m[x]]

\* map<K, V>::size
map_size(m) == Cardinality(DOMAIN m)

\* the ls_cache object assembled from the variables
Cache == [map |-> map_, keys |-> keys_]

\* the eviction step of put: if (map_.size() >= max_size_) { ... }
evict_oldest(c) ==
    IF map_size(c.map) >= max_size_
    THEN [map |-> map_erase(c.map, dequeue(c.keys).ret), keys |-> dequeue(c.keys).q]
    ELSE c

put(c, name, entry) ==
    [map  |-> map_add(evict_oldest(c).map, name, entry),
     keys |-> enqueue(evict_oldest(c).keys, name)]

\* lookup: map_.try_get_value(k, out); the cache itself is not changed
lookup(c, name) == name \in DOMAIN c.map

\* the path is moved to the most-recently-used end of the order of use
Use(order, name) == list_remove(order, name) \o <<name>>

\* the order of use without the paths that are not cached
Cached(order, m) == SelectSeq(order, LAMBDA x : x \in DOMAIN m)

\* the next path that was never asked for
FreshPath == IF keys_ = <<>> THEN 1 ELSE Max({ keys_[i] : i \in 1..Len(keys_) }) + 1

\* the device caches a listing
CachePut(name, entry) ==
    /\ name \in Paths
    /\ Len(keys_) < MaxKeys
    /\ LET c == put(Cache, name, entry)
       IN /\ map_' = c.map
          /\ keys_' = c.keys
          /\ recent' = Cached(Use(recent, name), c.map)
    /\ last' = [op |-> "put", name |-> name, found |-> name \in DOMAIN map_]
    /\ UNCHANGED <<allocator_vars, sched_vars, ls_vars>>

\* the device asks the cache for a path
CacheLookup(name) ==
    /\ last' = [op |-> "lookup", name |-> name, found |-> lookup(Cache, name)]
    /\ recent' = IF lookup(Cache, name) THEN Use(recent, name) ELSE recent
    /\ UNCHANGED <<map_, keys_>>
    /\ UNCHANGED <<allocator_vars, sched_vars, ls_vars>>

\* a path that was never asked for is cached, a path is cached again with a
\* new listing, or a path is looked up
NextCache ==
    \/ CachePut(FreshPath, 0)
    \/ \E name \in RePutPaths \cap DOMAIN map_ : CachePut(name, 1)
    \/ \E name \in LookupPaths : CacheLookup(name)

SpecCache == Init /\ [][NextCache]_vars

\* ------------------------------------------------- structural predicates
\* the free blocks of allocator a, as pairs <<order, pfn>>, one per list entry
FreeEntries(a) ==
    UNION { { <<k, i>> : i \in 1..Len(a.free_list[k]) } : k \in Orders }

EntryPfn(a, e) == a.free_list[e[1]][e[2]]

\* the pages of a free-list entry, computed without block_aligned
EntryPages(a, e) == EntryPfn(a, e) .. (EntryPfn(a, e) + Pow2Rec(e[1]) - 1)

RECURSIVE FreeSumFrom(_, _)
FreeSumFrom(a, k) ==
    IF k > LastOrder THEN 0
    ELSE Len(a.free_list[k]) * Pow2Rec(k) + FreeSumFrom(a, k + 1)

\* sum over all orders k of count(free_list[k]) * 2^k
FreeSum(a) == FreeSumFrom(a, 0)

SortedLists(a) ==
    \A k \in Orders : \A i \in 1..(Len(a.free_list[k]) - 1) :
        a.free_list[k][i] < a.free_list[k][i + 1]

AlignedLists(a) ==
    \A k \in Orders : \A i \in 1..Len(a.free_list[k]) :
        a.free_list[k][i] % Pow2Rec(k) = 0

DisjointLists(a) ==
    \A e1, e2 \in FreeEntries(a) :
        e1 # e2 => /\ EntryPfn(a, e1) # EntryPfn(a, e2)
                   /\ EntryPages(a, e1) \cap EntryPages(a, e2) = {}

\* the set of pages that are in some free block
FreePageSet(a) == UNION { EntryPages(a, e) : e \in FreeEntries(a) }

\* no free list holds a block together with its buddy
NoBuddyPairs(a) ==
    \A k \in 0..(LastOrder - 1) : \A i, j \in 1..Len(a.free_list[k]) :
        a.free_list[k][j] # calculate_other_buddy_pfn(k, a.free_list[k][i])

\* ------------------------------------------------------------------ claims

\* C1: between operations, after any sequence of insert_free_pages,
\* allocate_pages and free_pages calls on a freshly constructed allocator,
\* total_free equals the sum over all orders k of count(free_list[k]) * 2^k.
C1_Conservation ==
    (~aborted /\ ops > 0) => total_free_ = FreeSum(Self)

\* C2: at every point between operations each free_list[k] is sorted
\* strictly ascending by PFN, so no PFN appears twice in a list.
C2_SortedAscending == SortedLists(Self)

\* a free, a donation and an allocation have acted and some list holds
\* several blocks
C2_Witness ==
    /\ last.op = "free"
    /\ ~aborted
    /\ \E k \in Orders : Len(free_list_[k]) >= 3
    /\ Cardinality(managed) > 1

\* C3: in every reachable state every entry of free_list[k] has a PFN
\* aligned to 2^k.
C3_AlignedEntries == AlignedLists(Self)

\* a misaligned range was donated and split into blocks of several orders
C3_Witness ==
    /\ last.op = "insert" /\ last.pfn = 3 /\ last.count = 5
    /\ free_list_[2] # <<>>
    /\ free_list_[0] # <<>>

\* C4: no PFN appears in more than one free list and no two free blocks,
\* at the same or different orders, cover a common page.
C4_DisjointBlocks == DisjointLists(Self)

\* an allocation has split a block down several orders
C4_Witness ==
    /\ last.op = "alloc" /\ last.path = "first" /\ last.pfn # NULL
    /\ Cardinality({ k \in Orders : free_list_[k] # <<>> }) >= 3

\* the pair p = allocate_pages(order, none); free_pages(p, order), n times
RECURSIVE RoundTrip(_, _, _)
RoundTrip(a, order, n) ==
    IF n = 0 \/ a.aborted THEN a
    ELSE LET r == allocate_pages(a, order, "none")
         IN IF r.ret = NULL THEN r.a
            ELSE RoundTrip(free_pages(r.a, r.ret, order), order, n - 1)

\* allocate_pages(order, none) succeeds in the current state
AllocSucceeds(order) ==
    /\ ~aborted
    /\ LET r == allocate_pages(Self, order, "none") IN r.ret # NULL

\* C5: for any order and any state reached by valid operations in which
\* allocate_pages(order, none) succeeds, repeating allocate / free of the
\* same block 2^order times completes without aborting, leaves total_free
\* at its starting value and leaves the free lists sorted, aligned and
\* disjoint.
C5_RoundTrip ==
    \A order \in AllocOrders :
        AllocSucceeds(order) =>
            LET r == RoundTrip(Self, order, Pow2Rec(order))
            IN /\ ~r.aborted
               /\ r.total_free = total_free_
               /\ SortedLists(r) /\ AlignedLists(r) /\ DisjointLists(r)

\* the free lists allocate_pages(order) must leave when the smallest
\* non-empty order at or above order is k and its head is p
AfterSplitChain(fl, order, k, p) ==
    [j \in Orders |->
        IF j = k THEN Tail(fl[k])
        ELSE IF order <= j /\ j < k THEN <<p + Pow2Rec(j)>>
        ELSE fl[j]]

\* C6: when some free list at an order >= order is non-empty,
\* allocate_pages(order) returns the head p of the smallest such order k,
\* and afterwards the free lists differ only in that p is gone from
\* free_list[k] and one block at p + 2^j was added to free_list[j] for
\* each j with order <= j < k.
C6_AllocSplitChain ==
    [][ (last'.op = "alloc" /\ Candidates(Self, last'.order) # {}) =>
            LET order == last'.order
                k == Min(Candidates(Self, order))
                p == Head(free_list_[k])
            IN /\ ~aborted'
               /\ last'.pfn = p
               /\ free_list_' = AfterSplitChain(free_list_, order, k, p) ]_vars

\* from one order-4 block at 0, allocate_pages(0) has returned PFN 0 and
\* left the blocks 1, 2, 4 and 8 at orders 0, 1, 2 and 3
C6_Witness ==
    /\ last.op = "alloc" /\ last.order = 0 /\ last.pfn = 0
    /\ last.path = "first"
    /\ free_list_[0] = <<1>> /\ free_list_[1] = <<2>>
    /\ free_list_[2] = <<4>> /\ free_list_[3] = <<8>>
    /\ free_list_[4] = <<>>

\* every page the host donated is part of a block the host holds
AllDonatedAllocated ==
    /\ managed # {}
    /\ managed = UNION { BlockPages(b[1], b[2]) : b \in allocated }

\* C7: when no block of order >= the requested order is free,
\* allocate_pages runs the cleanup, retries the scan and, if there is still
\* nothing, returns null without aborting; after every donated page has
\* been allocated, allocate_pages(0) returns null with all free lists
\* empty and total_free = 0.
C7_OutOfMemory ==
    [][ /\ (last'.op = "alloc" /\ Candidates(Self, last'.order) = {}) =>
             /\ ~aborted'
             /\ last'.path \in {"retry", "oom"}
             /\ (last'.pfn = NULL) <=> (Candidates(Self', last'.order) = {}
                                          /\ last'.path = "oom")
        /\ (last'.op = "alloc" /\ last'.order = 0 /\ AllDonatedAllocated) =>
             /\ last'.pfn = NULL
             /\ \A k \in Orders : free_list_'[k] = <<>>
             /\ total_free_' = 0 ]_vars

\* C8: after cleanup_pending_merges followed by an allocate_pages attempt
\* of order LastOrder, no free_list[k] with k < LastOrder contains both a
\* block and its buddy.
C8_FullCoalescing ==
    (/\ last.op = "alloc" /\ last.order = LastOrder
     /\ last.path \in {"retry", "oom"} /\ ~aborted)
        => NoBuddyPairs(Self)

\* the free lists after insert_free_pages(0, 16), allocate_pages(0) and
\* free_pages(PFN 0, 0): all 16 pages free, split over orders 0 to 3
Fragmented16 ==
    /\ free_list_ = [k \in Orders |->
                        CASE k = 0 -> <<0, 1>>
                          [] k = 1 -> <<2>>
                          [] k = 2 -> <<4>>
                          [] k = 3 -> <<8>>
                          [] OTHER -> <<>>]
    /\ pending_merges_ = {<<0, 0>>}

\* C9: with the 16 pages of the order-4 region at PFN 0 free but split as
\* {0,1}, {2}, {4}, {8}, allocate_pages(4) runs the cleanup, which merges
\* the blocks up to one order-4 block, and returns the block at PFN 0.
C9_CascadedMerge ==
    [][ (Fragmented16 /\ last'.op = "alloc" /\ last'.order = 4) =>
            /\ ~aborted'
            /\ last'.pfn = 0
            /\ \A k \in Orders : free_list_'[k] = <<>> ]_vars

\* C10: free_pages(block, order) with order < LastOrder that finds the
\* buddy in free_list[order] and the pending-merge bit of the pair set
\* clears the bit and returns normally, with both buddies gone from
\* free_list[order] and their union free at order + 1 or above.
C10_MergeOnFree ==
    [][ LET order == last'.order
            pfn == last'.pfn
            buddy_pfn == calculate_other_buddy_pfn(order, pfn)
            lower_pfn == IF pfn < buddy_pfn THEN pfn ELSE buddy_pfn
        IN (/\ last'.op = "free" /\ order < LastOrder
            /\ is_buddy_free(Self, order, buddy_pfn)
            /\ is_pending_merge(Self, lower_pfn, order)) =>
               /\ ~aborted'
               /\ <<order, pending_merge_index(lower_pfn, order)>> \notin pending_merges_'
               /\ \A i \in 1..Len(free_list_'[order]) :
                      free_list_'[order][i] \notin {pfn, buddy_pfn}
               /\ \E k \in (order + 1)..LastOrder :
                      \E i \in 1..Len(free_list_'[k]) :
                          /\ free_list_'[k][i] <= lower_pfn
                          /\ lower_pfn + Pow2Rec(order + 1)
                                 <= free_list_'[k][i] + Pow2Rec(k) ]_vars

\* C11: free_pages(block, order) whose buddy is in free_list[order] while
\* the pending-merge bit of the pair is not set performs no merge: it sets
\* the bit, and afterwards the block and its buddy are both in
\* free_list[order] and every other free list is unchanged.
C11_DeferredMerge ==
    [][ LET order == last'.order
            pfn == last'.pfn
            buddy_pfn == calculate_other_buddy_pfn(order, pfn)
            lower_pfn == IF pfn < buddy_pfn THEN pfn ELSE buddy_pfn
            index == (lower_pfn + order) % MAX_PENDING_MERGES
        IN (/\ last'.op = "free" /\ order < LastOrder
            /\ \E i \in 1..Len(free_list_[order]) : free_list_[order][i] = buddy_pfn
            /\ <<order, index>> \notin pending_merges_) =>
               /\ ~aborted'
               /\ pending_merges_' = pending_merges_ \cup {<<order, index>>}
               /\ \E i, j \in 1..Len(free_list_'[order]) :
                      /\ free_list_'[order][i] = pfn
                      /\ free_list_'[order][j] = buddy_pfn
               /\ Len(free_list_'[order]) = Len(free_list_[order]) + 1
               /\ \A k \in Orders \ {order} : free_list_'[k] = free_list_[k] ]_vars

\* PFN 0 was freed at order 0 while PFN 1 was free: free_list[0] = {0, 1}
C11_Witness ==
    /\ last.op = "free" /\ last.order = 0 /\ last.pfn = 0
    /\ ~aborted
    /\ free_list_[0] = <<0, 1>>
    /\ <<0, 0>> \in pending_merges_

\* C12: insert_free_pages(start, count) increases total_free by exactly
\* count.
C12_DonateCount ==
    [][ last'.op = "insert" =>
            /\ ~aborted'
            /\ total_free_' = total_free_ + last'.count ]_vars

\* an order-k block at pfn fits the rest of a donated range
Fits(k, pfn, remaining) == pfn % Pow2Tab[k] = 0 /\ Pow2Tab[k] <= remaining

\* the greedy decomposition of the range [pfn, pfn + remaining): at each
\* step the largest order that fits
RECURSIVE GreedyBlocks(_, _)
GreedyBlocks(pfn, remaining) ==
    IF remaining <= 0 THEN {}
    ELSE LET k == CHOOSE k \in Orders :
                    /\ Fits(k, pfn, remaining)
                    /\ \A j \in Orders : j > k => ~Fits(j, pfn, remaining)
         IN {<<pfn, k>>} \cup GreedyBlocks(pfn + Pow2Tab[k], remaining - Pow2Tab[k])

ListSet(fl, k) == { fl[k][i] : i \in 1..Len(fl[k]) }

\* C13: insert_free_pages(start, count) over pages not yet free inserts the
\* greedy decomposition of the range: each block has the largest order k
\* with the current PFN 2^k-aligned and 2^k <= the remaining count, and
\* the blocks are pairwise disjoint and cover exactly [start, start+count).
C13_GreedyDonate ==
    [][ (last'.op = "insert" /\ ~aborted') =>
            LET G == GreedyBlocks(last'.pfn, last'.count)
            IN /\ \A k \in Orders :
                    /\ ListSet(free_list_', k) =
                           ListSet(free_list_, k) \cup { b[1] : b \in { c \in G : c[2] = k } }
                    /\ Len(free_list_'[k]) =
                           Len(free_list_[k]) + Cardinality({ c \in G : c[2] = k })
               /\ \A b, c \in G :
                    b # c => (b[1] .. (b[1] + Pow2Tab[b[2]] - 1))
                                 \cap (c[1] .. (c[1] + Pow2Tab[c[2]] - 1)) = {}
               /\ UNION { b[1] .. (b[1] + Pow2Tab[b[2]] - 1) : b \in G }
                      = last'.pfn .. (last'.pfn + last'.count - 1) ]_vars

\* the 16-aligned range of 16 pages was donated and became one order-4 block
C13_Witness ==
    /\ last.op = "insert" /\ last.pfn = 0 /\ last.count = 16
    /\ ~aborted
    /\ free_list_[4] = <<0>>
    /\ \A k \in Orders \ {4} : free_list_[k] = <<>>

\* every free list is empty
EmptyLists == \A k \in Orders : free_list_[k] = <<>>

\* C14 as claimed: insert_free_pages(pfn=3, count=5) on an empty allocator
\* leaves exactly the blocks order 0 at 3, order 1 at 4, order 0 at 6 and
\* order 0 at 7.
C14_MisalignedDonate_Claimed ==
    [][ (EmptyLists /\ last'.op = "insert" /\ last'.pfn = 3 /\ last'.count = 5) =>
            /\ ~aborted'
            /\ free_list_' = [k \in Orders |->
                                 CASE k = 0 -> <<3, 6, 7>>
                                   [] k = 1 -> <<4>>
                                   [] OTHER -> <<>>] ]_vars

\* C14 amended: insert_free_pages(pfn=3, count=5) on an empty allocator
\* leaves exactly the blocks order 0 at PFN 3 and order 2 at PFN 4.
C14_MisalignedDonate ==
    [][ (EmptyLists /\ last'.op = "insert" /\ last'.pfn = 3 /\ last'.count = 5) =>
            /\ ~aborted'
            /\ free_list_' = [k \in Orders |->
                                 CASE k = 0 -> <<3>>
                                   [] k = 2 -> <<4>>
                                   [] OTHER -> <<>>] ]_vars

\* the range 3..7 was donated to an allocator that held no free block
C14_Witness ==
    /\ last.op = "insert" /\ last.pfn = 3 /\ last.count = 5
    /\ managed = 3..7 /\ allocated = {}
    /\ ~aborted

\* C15: a freshly constructed allocator has every free list empty, every
\* pending-merge bit zero and total_free = 0.
C15_FreshAllocator ==
    ops = 0 => /\ EmptyLists
               /\ pending_merges_ = {}
               /\ total_free_ = 0

\* C16: free_pages(start, order) for a block that is already free aborts
\* instead of inserting it, also when the block has been merged into a
\* larger free block or split into smaller ones, so a double free never
\* produces overlapping free blocks.
C16_DoubleFreeFatal ==
    [][ last'.op = "double_free" =>
            /\ aborted'
            /\ free_list_' = free_list_
            /\ DisjointLists(Self') ]_vars

\* C17: free_pages with a PFN that is not 2^order-aligned, and free_pages
\* or allocate_pages with an order outside 0..LastOrder, abort without
\* having modified a free list, the pending-merge bitmap or total_free.
C17_PreconditionAbort ==
    [][ last'.op \in {"bad_free", "bad_alloc"} =>
            /\ aborted'
            /\ free_list_' = free_list_
            /\ pending_merges_' = pending_merges_
            /\ total_free_' = total_free_ ]_vars

\* free_pages was called with a misaligned PFN while blocks were free and
\* pending bits were set
C17_Witness ==
    /\ last.op = "bad_free" /\ last.order \in Orders
    /\ last.pfn % Pow2Rec(last.order) # 0
    /\ aborted
    /\ ~EmptyLists

\* the block-leader pages in the free lists
FreeLeaders(fl) == UNION { ListSet(fl, k) : k \in Orders }

\* the pages the call recorded in r hands to the allocator
Incoming(r) ==
    IF r.op = "free" THEN {r.pfn}
    ELSE IF r.op = "insert" THEN r.pfn .. (r.pfn + r.count - 1)
    ELSE {}

C19_ZeroFlag ==
    [][ (last'.op = "alloc" /\ last'.flags = "zero" /\ last'.pfn # NULL) =>
            BlockPages(last'.pfn, last'.order) \cap nonzero' = {} ]_vars

\* allocate_pages(1, zero) has returned a block of two pages on the retry
\* path, and both pages held data when they were donated
C19_Witness ==
    /\ last.op = "alloc" /\ last.flags = "zero" /\ last.path = "retry"
    /\ last.pfn # NULL /\ last.order >= 1
    /\ <<last.pfn, last.order>> \in allocated

\* the blocks that are in a free list of fl2 and not in that list of fl1
NewBlocks(fl1, fl2) ==
    { b \in Orders \X FreeLeaders(fl2) :
        b[2] \in ListSet(fl2, b[1]) \ ListSet(fl1, b[1]) }

\* C20: once the pages of two buddy pairs of one order that share a
\* pending-merge bit (lower PFNs 0 and 64 at order 0) are managed, no valid
\* call aborts, the free blocks stay disjoint and cover exactly the pages
\* the host does not hold, and a block that appears in a free list consists
\* of pages that were free or were handed in by the call.
C20_CollisionsTolerated ==
    [][ ({0, 1, 64, 65} \subseteq managed') =>
            /\ ~aborted'
            /\ DisjointLists(Self')
            /\ FreePageSet(Self') = HostFreePages'
            /\ \A b \in NewBlocks(free_list_, free_list_') :
                  BlockPages(b[2], b[1]) \subseteq
                      FreePageSet(Self) \cup Incoming(last') ]_vars

\* the tasks in the run queue
Queued(q) == { q[i] : i \in 1..Len(q) }

\* C21: select_next_task on a non-empty run queue returns the head and
\* moves it to the tail, whatever `current' is, so the set of queued tasks
\* is unchanged; on an empty run queue it returns null and the queue stays
\* empty.
C21_RotatePick ==
    [][ last'.op = "select" =>
            IF runtime_queue = <<>>
            THEN last'.ret = NULL /\ runtime_queue' = <<>>
            ELSE /\ last'.ret = Head(runtime_queue)
                 /\ runtime_queue' = Tail(runtime_queue) \o <<Head(runtime_queue)>>
                 /\ Queued(runtime_queue') = Queued(runtime_queue) ]_vars

\* a pick with a current task that is not the head has rotated a queue of
\* three tasks
C21_Witness ==
    /\ last.op = "select" /\ last.ret # NULL
    /\ last.current \notin {NULL, last.ret}
    /\ Len(runtime_queue) = 3
    /\ runtime_queue[3] = last.ret

C23_CacheBounded ==
    /\ map_size(map_) <= max_size_
    /\ Queued(keys_) = DOMAIN map_
    /\ Len(keys_) = map_size(map_)

\* C24: a put on a full cache evicts the least recently used entry (used
\* by put or by a successful lookup) and no other, so the entry used last
\* is not the one evicted.
C24_LruEviction ==
    [][ (last'.op = "put" /\ map_size(map_) >= max_size_) =>
            LET evicted == DOMAIN map_ \ DOMAIN map_'
            IN /\ evicted \subseteq {Head(recent)}
               /\ last'.name \notin DOMAIN map_ => evicted = {Head(recent)}
               /\ recent[Len(recent)] \notin evicted ]_vars

\* ------------------------------------------------------------ the ls device
\* the device object: its result, its cache, the path it listed last, and the
\* file system it reads
Device ==
    [prod |-> prod, cache |-> Cache, last_lookup_path |-> last_lookup_path,
     dirty_cache_bit |-> dirty_cache_bit, children |-> children]

\* the directory_entry written for a child node
entry_of(child) ==
    IF child.kind = "directory"
    THEN [name |-> child.name, type |-> "directory", size |-> 0]
    ELSE [name |-> child.name, type |-> "file", size |-> child.data_size]

\* the loop over the children from the i-th on: one entry each, until the
\* entries array is full
RECURSIVE list_children(_, _, _)
list_children(p, ch, i) ==
    IF i > Len(ch) THEN p
    ELSE IF p.number_entries >= MAX_RESULT_ENTRIES THEN p
    ELSE list_children([p EXCEPT !.entries[p.number_entries + 1] = entry_of(ch[i]),
                                 !.number_entries = @ + 1], ch, i + 1)

\* prod with an error outcome and no entries
failed(p, result_code) ==
    [p EXCEPT !.code = "ok", !.result_code = result_code, !.number_entries = 0]

\* the listing of a FAT directory, cached and remembered as the last lookup
listed(d, path, p) ==
    [d EXCEPT !.prod = p, !.cache = put(d.cache, path, p),
              !.last_lookup_path = path, !.dirty_cache_bit[path] = FALSE]

\* compute_ls once the path is known to differ from the last one and prod
\* has been zeroed
compute_fresh(d, path, node) ==
    IF ~node.exists THEN [d EXCEPT !.prod = failed(d.prod, "directory_does_not_exist")]
    ELSE IF lookup(d.cache, path) /\ ~d.dirty_cache_bit[path]
    THEN [d EXCEPT !.prod = d.cache.map[path], !.last_lookup_path = path]
    ELSE IF node.kind # "directory" THEN [d EXCEPT !.prod = failed(d.prod, "file_was_passed")]
    ELSE IF node.fs # "fat" THEN [d EXCEPT !.prod = failed(d.prod, "unsupported_filesystem")]
    ELSE IF Len(d.children[path]) = 0 THEN [d EXCEPT !.prod = failed(d.prod, "directory_empty")]
    ELSE listed(d, path, list_children(d.prod, d.children[path], 1))

compute_ls(d, path) ==
    IF path = d.last_lookup_path THEN d
    ELSE compute_fresh([d EXCEPT !.prod = ZeroProd], path, vfs_lookup(path))

\* pread that hands out the three result fields to a short buffer as well
pread_copies_header(p, buf, offset, length) ==
    [buffer |-> [buf EXCEPT !.code = p.code, !.result_code = p.result_code,
                            !.number_entries = p.number_entries],
     ret |-> IF length < sizeof_final_product THEN 0 ELSE sizeof_final_product]

\* pread of the device file into a buffer of the given length
pread(p, buf, offset, length) ==
    IF length < sizeof_final_product THEN [buffer |-> buf, ret |-> 0]
    ELSE [buffer |-> [code |-> p.code, result_code |-> p.result_code,
                      number_entries |-> p.number_entries,
                      entries |-> [i \in 1..MAX_RESULT_ENTRIES |->
                                     IF i <= p.number_entries THEN p.entries[i]
                                     ELSE buf.entries[i]]],
          ret |-> sizeof_final_product]

\* pwrite of the device file
pwrite(buf, offset, length) == 0

\* the lengths and offsets user programs pass
Lengths == {sizeof_final_product - 1, sizeof_final_product, sizeof_final_product + 1}
Offsets == {0, sizeof_final_product}

\* a user program asks for the listing of a path
ComputeLs(path) ==
    /\ LET d == compute_ls(Device, path) IN
        /\ prod' = d.prod
        /\ map_' = d.cache.map
        /\ keys_' = d.cache.keys
        /\ last_lookup_path' = d.last_lookup_path
        /\ dirty_cache_bit' = d.dirty_cache_bit
    /\ last' = [op |-> "compute_ls", path |-> path, ret |-> 0, offset |-> 0, length |-> 0]
    /\ UNCHANGED <<allocator_vars, sched_vars, recent, children, buffer>>

\* the file system adds a child to a directory and marks the node dirty
Touch(path) ==
    /\ Len(children[path]) < MaxChildren
    /\ children' = [children EXCEPT ![path] = ChildrenOf(path, Len(@) + 1)]
    /\ dirty_cache_bit' = [dirty_cache_bit EXCEPT ![path] = TRUE]
    /\ last' = [op |-> "touch", path |-> path, ret |-> 0, offset |-> 0, length |-> 0]
    /\ UNCHANGED <<allocator_vars, sched_vars, cache_vars, prod, last_lookup_path, buffer>>

\* a user program reads the device file into a local buffer
Pread(offset, length) ==
    /\ LET r == pread(prod, GarbageProd(0), offset, length) IN
        /\ buffer' = r.buffer
        /\ last' = [op |-> "pread", path |-> NoPath, ret |-> r.ret,
                    offset |-> offset, length |-> length]
    /\ UNCHANGED <<allocator_vars, sched_vars, cache_vars, prod, last_lookup_path,
                   dirty_cache_bit, children>>

\* a user program writes to the device file
Pwrite(offset, length) ==
    /\ last' = [op |-> "pwrite", path |-> NoPath, ret |-> pwrite(buffer, offset, length),
                offset |-> offset, length |-> length]
    /\ UNCHANGED <<allocator_vars, sched_vars, cache_vars, ls_vars>>

NextLs ==
    \/ \E path \in LsPaths : ComputeLs(path)
    \/ Touch(DirA)
    \/ \E offset \in Offsets, length \in Lengths : Pread(offset, length)
    \/ \E length \in Lengths : Pwrite(0, length)

SpecLs == InitLs /\ [][NextLs]_vars

\* C25: pread with a length below sizeof(final_product) returns 0 and leaves
\* the caller's buffer as it was; otherwise it returns sizeof(final_product)
\* and the buffer holds the device's result code, ls result code, entry count
\* and that many entries, whatever the offset; pwrite returns 0; neither
\* changes the device's stored result
C25_PreadContract ==
    [][ /\ (last'.op = "pread" /\ last'.length < sizeof_final_product)
            => (last'.ret = 0 /\ buffer' = GarbageProd(0))
        /\ (last'.op = "pread" /\ last'.length >= sizeof_final_product)
            => /\ last'.ret = sizeof_final_product
               /\ buffer'.code = prod.code
               /\ buffer'.result_code = prod.result_code
               /\ buffer'.number_entries = prod.number_entries
               /\ \A i \in 1..prod.number_entries : buffer'.entries[i] = prod.entries[i]
        /\ (last'.op = "pwrite") => (last'.ret = 0 /\ buffer' = buffer)
        /\ (last'.op \in {"pread", "pwrite"}) => prod' = prod ]_vars

\* a full listing of the big directory was read at a non-zero offset
C25_Witness ==
    /\ last.op = "pread"
    /\ last.offset > 0
    /\ last.ret = sizeof_final_product
    /\ buffer.number_entries = MAX_RESULT_ENTRIES
    /\ buffer.entries[MAX_RESULT_ENTRIES] = entry_of(children[DirBig][MAX_RESULT_ENTRIES])
    /\ buffer = prod

\* the pages of the blocks the host holds
HeldPages == UNION { BlockPages(b[1], b[2]) : b \in allocated }

\* C26: a block returned by allocate_pages overlaps no block that was
\* returned earlier and has not been freed, and no block that is in a free
\* list after the call
C26_NoPageTwice ==
    [][ (last'.op = "alloc" /\ last'.pfn # NULL)
            => /\ BlockPages(last'.pfn, last'.order) \cap HeldPages = {}
               /\ BlockPages(last'.pfn, last'.order) \cap FreePageSet(Self)' = {}
               /\ <<last'.pfn, last'.order>> \notin allocated ]_vars

\* a third block is handed out while the host holds two others and
\* free blocks remain
C26_Witness ==
    /\ last.op = "alloc"
    /\ last.pfn # NULL
    /\ Cardinality(allocated) = 3
    /\ FreePageSet(Self) # {}
    /\ ops >= 5

\* an allocate_pages call whose first scan found nothing, so that it ran
\* cleanup_pending_merges, and whose cleanup returned
CleanupRan == last'.op = "alloc" /\ last'.path \in {"retry", "oom"} /\ ~aborted'

\* C27: when cleanup_pending_merges returns, every bit of the pending-merge
\* bitmap is clear at every order
C27_CleanupClearsAll ==
    [][ CleanupRan => pending_merges_' = {} ]_vars

\* the pairs (order, lower PFN) whose pending bit is set while both buddies
\* are in free_list[order]
ValidPending ==
    { b \in (0..(LastOrder - 1)) \X managed :
        /\ b[2] % Pow2Rec(b[1] + 1) = 0
        /\ <<b[1], pending_merge_index(b[2], b[1])>> \in pending_merges_
        /\ {b[2], b[2] + Pow2Rec(b[1])} \subseteq ListSet(free_list_, b[1]) }

\* the pages of the blocks in the free lists fl at an order above k
FreeAbove(fl, k) ==
    UNION { UNION { BlockPages(pfn, j) : pfn \in ListSet(fl, j) } :
              j \in (k + 1)..LastOrder }

\* the pages that are free at an order above k, or were handed out by the call
MergedPages(k) ==
    FreeAbove(free_list_', k)
      \cup (IF last'.pfn = NULL THEN {} ELSE BlockPages(last'.pfn, last'.order))

\* C28: cleanup_pending_merges performs every deferred merge that is still
\* valid, at every order: for a pair whose bit is set and whose two blocks
\* are both in free_list[k] when cleanup runs, afterwards neither is in
\* free_list[k] and their union is free at order k+1 or above
C28_CleanupMergesAll ==
    [][ CleanupRan =>
          \A b \in ValidPending :
              /\ {b[2], b[2] + Pow2Rec(b[1])} \cap ListSet(free_list_', b[1]) = {}
              /\ BlockPages(b[2], b[1] + 1) \subseteq MergedPages(b[1]) ]_vars

\* ------------------------------------------------- merge_buddies by itself
\* merge_buddies is called for a block that is in free_list[order]
MergeBuddies(order, pfn) ==
    /\ ~aborted
    /\ Call
    /\ UNCHANGED <<sched_vars, cache_vars, ls_vars>>
    /\ pfn \in ListSet(free_list_, order)
    /\ Store(merge_buddies(Self, order, pfn))
    /\ allocated' = allocated
    /\ managed' = managed
    /\ last' = [op |-> "merge", order |-> order, pfn |-> pfn, count |-> 0,
                path |-> "none", flags |-> "none"]

NextMerge ==
    \/ \E r \in DonateRanges : InsertFreePages(r[1], r[2])
    \/ \E order \in AllocOrders : AllocatePages(order, "none")
    \/ \E b \in allocated : FreePages(b[1], b[2])
    \/ \E order \in 0..MaxAllocOrder, pfn \in managed : MergeBuddies(order, pfn)

SpecMerge == Init /\ [][NextMerge]_vars

\* a merge_buddies call for a block whose buddy is, or is not, in
\* free_list[order]
MergeCall(buddy_free) ==
    /\ last'.op = "merge"
    /\ (calculate_other_buddy_pfn(last'.order, last'.pfn)
            \in ListSet(free_list_, last'.order)) = buddy_free

\* C29: merge_buddies(order, block) invoked when the block's buddy is not in
\* free_list[order] does not abort and leaves every free list, the bitmap
\* and total_free unchanged
C29_SilentMergeSkip ==
    [][ MergeCall(FALSE) =>
          /\ ~aborted'
          /\ free_list_' = free_list_
          /\ pending_merges_' = pending_merges_
          /\ total_free_' = total_free_ ]_vars

\* C30: merge_buddies cascades: when the block's buddy is free at order k
\* and the buddy of the merged block is free at order k+1, a single call
\* leaves the union of the four at order k+2 or higher
C30_MergeCascades ==
    [][ LET k == last'.order
            merged == IF last'.pfn < calculate_other_buddy_pfn(k, last'.pfn)
                      THEN last'.pfn ELSE calculate_other_buddy_pfn(k, last'.pfn)
            upper == calculate_other_buddy_pfn(k + 1, merged)
        IN (MergeCall(TRUE) /\ upper \in ListSet(free_list_, k + 1)) =>
              /\ ~aborted'
              /\ BlockPages(merged, k + 1) \cup BlockPages(upper, k + 1)
                    \subseteq FreeAbove(free_list_', k + 1) ]_vars

\* --------------------------------------------------- split_block by itself
\* split_block is called for a block that is in free_list[order]
SplitBlock(order, pfn) ==
    /\ ~aborted
    /\ Call
    /\ UNCHANGED <<sched_vars, cache_vars, ls_vars>>
    /\ pfn \in ListSet(free_list_, order)
    /\ Store(split_block(Self, order, pfn))
    /\ allocated' = allocated
    /\ managed' = managed
    /\ last' = [op |-> "split", order |-> order, pfn |-> pfn, count |-> 0,
                path |-> "none", flags |-> "none"]

\* donations, allocations and splits: the free lists that split_block meets
\* hold donated blocks and the halves that earlier splits left
NextSplit ==
    \/ \E r \in DonateRanges : InsertFreePages(r[1], r[2])
    \/ \E order \in AllocOrders : AllocatePages(order, "none")
    \/ \E order \in 1..MaxAllocOrder, pfn \in managed : SplitBlock(order, pfn)

SpecSplit == Init /\ [][NextSplit]_vars

\* list s without the PFNs of set gone
Without(s, gone) == SelectSeq(s, LAMBDA x : x \notin gone)

\* C31: split_block(order, block) with order > 0 on a block at PFN p that is
\* in free_list[order] removes it from free_list[order] and inserts exactly
\* the two halves p and p + 2^(order-1) into free_list[order-1]; every other
\* entry of every list is unchanged and the set of free pages is the same
C31_SplitFrame ==
    [][ (last'.op = "split") =>
          LET order == last'.order
              p == last'.pfn
              halves == {p, p + Pow2Rec(order - 1)}
          IN /\ ~aborted'
             /\ free_list_'[order] = Without(free_list_[order], {p})
             /\ Len(free_list_'[order]) = Len(free_list_[order]) - 1
             /\ halves \subseteq ListSet(free_list_', order - 1)
             /\ Without(free_list_'[order - 1], halves) = free_list_[order - 1]
             /\ Len(free_list_'[order - 1]) = Len(free_list_[order - 1]) + 2
             /\ \A k \in Orders \ {order, order - 1} : free_list_'[k] = free_list_[k]
             /\ FreePageSet(Self)' = FreePageSet(Self) ]_vars

\* a block of order 2 was split next to other blocks of order 1
C31_Witness ==
    /\ last.op = "split"
    /\ last.order = 2
    /\ ~aborted
    /\ Len(free_list_[1]) >= 3
    /\ free_list_[2] # <<>>

\* C32: a pending-merge bit is set only by free_pages (called by the host or
\* by insert_free_pages for a donated block), for an order < LastOrder and a
\* lower PFN that is 2^(order+1)-aligned, while lower and lower + 2^order are
\* both in free_list[order]; allocate_pages and its cleanup set no bit
C32_BitsSetByFree ==
    [][ \A b \in pending_merges_' \ pending_merges_ :
          /\ last'.op \in {"free", "insert"}
          /\ b[1] < LastOrder
          /\ \E lower \in managed' :
               /\ lower % Pow2Rec(b[1] + 1) = 0
               /\ pending_merge_index(lower, b[1]) = b[2]
               /\ {lower, lower + Pow2Rec(b[1])} \subseteq ListSet(free_list_', b[1]) ]_vars

\* freeing PFN 0 at order 1 next to its free buddy PFN 2 has set the bit of
\* the pair
C32_Witness ==
    /\ last.op = "free" /\ last.order = 1 /\ last.pfn = 0
    /\ ~aborted
    /\ <<1, pending_merge_index(0, 1)>> \in pending_merges_
    /\ {0, 2} \subseteq ListSet(free_list_, 1)

\* C33: every access to the pending-merge bitmap uses a row within
\* 0..LastOrder and addresses the bit of the pair being processed: nothing
\* is written outside pending_merges_, and the step of
\* cleanup_pending_merges for a set bit (order, idx) clears that bit
C33_BitmapAddressing ==
    /\ stray = {}
    /\ ~aborted =>
         \A b \in pending_merges_ :
             LET c == CleanupBit(Self, b[1], b[2])
             IN ~c.aborted => (b \notin c.pending /\ c.stray = {})

\* C34: allocate_pages with a valid order never aborts, and when its first
\* scan finds nothing and it retries after cleanup, the block the second
\* scan finds is of exactly the requested order, so the retry never splits
C34_RetryNeverSplits ==
    [][ (last'.op = "alloc") =>
          /\ ~aborted'
          /\ (last'.path = "retry") =>
                Min(Candidates(cleanup_pending_merges(Self), last'.order)) = last'.order ]_vars

\* a retry after cleanup returned a block: the pair 0/1 merged by cleanup
C34_Witness ==
    /\ last.op = "alloc"
    /\ last.path = "retry"
    /\ last.order = 1
    /\ last.pfn = 0
    /\ ~aborted

\* C35: an allocate_pages call that returns nullptr leaves total_free and
\* the set of free pages unchanged, also when its cleanup merged blocks
C35_FailedAllocFrame ==
    [][ (last'.op = "alloc" /\ last'.pfn = NULL /\ ~aborted') =>
          /\ total_free_' = total_free_
          /\ FreePageSet(Self)' = FreePageSet(Self) ]_vars

\* a request for order 2 failed after its cleanup merged the pair 0/1
C35_Witness ==
    /\ last.op = "alloc"
    /\ last.path = "oom"
    /\ last.order = 2
    /\ ~aborted
    /\ free_list_[0] = <<>>
    /\ free_list_[1] = <<0>>
    /\ managed = {0, 1}

\* the ls result code compute_ls owes a path
OutcomeCode(path) ==
    IF ~vfs_lookup(path).exists THEN "directory_does_not_exist"
    ELSE IF vfs_lookup(path).kind # "directory" THEN "file_was_passed"
    ELSE IF vfs_lookup(path).fs # "fat" THEN "unsupported_filesystem"
    ELSE IF children[path] = <<>> THEN "directory_empty"
    ELSE "ok"

\* result p is an outcome for the path: its error code with no entries, or
\* a listing of children of that directory, in order
OutcomeOf(p, path) ==
    /\ p.code = "ok"
    /\ p.result_code = OutcomeCode(path)
    /\ IF OutcomeCode(path) # "ok" THEN p.number_entries = 0
       ELSE /\ p.number_entries \in 1..MAX_RESULT_ENTRIES
            /\ p.number_entries <= Len(children[path])
            /\ \A i \in 1..p.number_entries : p.entries[i] = entry_of(children[path][i])

\* C36: after compute_ls(path) returns, the result that pread serves is the
\* outcome for that path, whatever compute_ls calls came before
C36_ResultIsForPath ==
    [][ (last'.op = "compute_ls") => OutcomeOf(prod', last'.path) ]_vars

\* result p is the listing of the directory's current children
CurrentListing(p, path) ==
    /\ p.code = "ok"
    /\ p.result_code = "ok"
    /\ p.number_entries = Min({Len(children[path]), MAX_RESULT_ENTRIES})
    /\ \A i \in 1..p.number_entries : p.entries[i] = entry_of(children[path][i])

\* C37: compute_ls(path) called while the directory's dirty_cache_bit is set
\* rebuilds the result from the directory's current children and clears the
\* bit, also when path is the last looked-up path
C37_NoStaleListing ==
    [][ (last'.op = "compute_ls" /\ dirty_cache_bit[last'.path]) =>
          /\ CurrentListing(prod', last'.path)
          /\ ~dirty_cache_bit'[last'.path] ]_vars

\* C38: with n >= 1 distinct tasks queued and no add or remove in between,
\* any n consecutive select_next_task calls return every queued task once,
\* in queue order, and the sequence repeats with period n
C38_RoundRobinFair ==
    (last.op = "select" /\ runtime_queue # <<>>) =>
        LET n == Len(runtime_queue)
            picks == last.picks
        IN /\ \A i \in 1..(Len(picks) - n + 1) :
                 { picks[j] : j \in i..(i + n - 1) } = Queued(runtime_queue)
           /\ \A i \in 1..(Len(picks) - n) : picks[i + n] = picks[i]
           /\ \A j \in 1..Min({n, Len(picks)}) :
                 picks[Len(picks) - j + 1] = runtime_queue[n - j + 1]

\* three tasks were picked twice round, in the order they were added
C38_Witness ==
    /\ last.op = "select"
    /\ Len(runtime_queue) = 3
    /\ Len(last.picks) = 6
    /\ last.picks = runtime_queue \o runtime_queue
    /\ runtime_queue = <<2, 3, 1>>

\* ------------------------------------------- calculate_other_buddy_pfn alone
\* the buddy of the m-th block of order k is computed, and the buddy of that
BuddyOf(k, m) ==
    /\ last' = [op |-> "buddy", order |-> k, pfn |-> m * Pow2Rec(k),
                ret |-> calculate_other_buddy_pfn(k, m * Pow2Rec(k)),
                back |-> calculate_other_buddy_pfn(k,
                            calculate_other_buddy_pfn(k, m * Pow2Rec(k)))]
    /\ UNCHANGED <<allocator_vars, sched_vars, cache_vars, ls_vars>>

NextBuddy == \E k \in 0..(LastOrder - 1), m \in 0..MaxBlockIndex : BuddyOf(k, m)

SpecBuddy == Init /\ [][NextBuddy]_vars

\* C39: for every order k in 0..LastOrder-1 and every 2^k-aligned pfn,
\* calculate_other_buddy_pfn(k, pfn) differs from pfn in bit k and in no
\* other bit, is 2^k-aligned, and applied twice gives pfn back
C39_BuddyIdentity ==
    (last.op = "buddy") =>
        LET k == last.order
        IN /\ last.ret # last.pfn
           /\ (last.ret \div Pow2Rec(k)) % 2 # (last.pfn \div Pow2Rec(k)) % 2
           /\ last.ret \div Pow2Rec(k + 1) = last.pfn \div Pow2Rec(k + 1)
           /\ last.ret % Pow2Rec(k) = last.pfn % Pow2Rec(k)
           /\ last.ret % Pow2Rec(k) = 0
           /\ last.back = last.pfn

\* the buddy of an upper half at the highest order with a buddy: the lower
\* half
C39_Witness ==
    /\ last.op = "buddy"
    /\ last.order = LastOrder - 1
    /\ last.pfn = 7 * Pow2Rec(LastOrder - 1)
    /\ last.ret = 6 * Pow2Rec(LastOrder - 1)
====
